---- MODULE Spec2Model ----
(***************************************************************************)
(* The CHIP-8 machine of chip8_core (struct Emu and its methods) and the   *)
(* calls the desktop front end makes on it.  The fields of Emu are the     *)
(* variables; every public method is an action; the private helpers        *)
(* (fetch, push, pop, execute) are operators over a record of the fields,  *)
(* so that one call of tick is one step.                                   *)
(*                                                                         *)
(* A Rust panic (an index out of range, an arithmetic overflow in a build  *)
(* with overflow checks, unimplemented!) stops the method where it is: the *)
(* assignments made before it stay, the ones after it never happen, and    *)
(* panicked becomes TRUE.  No method runs on a panicked machine.           *)
(***************************************************************************)
EXTENDS Integers, Sequences, FiniteSets, TLC

SCREEN_WIDTH == 64
SCREEN_HEIGHT == 32
RAM_SIZE == 4096
NUM_REGS == 16
STACK_SIZE == 16
NUM_KEYS == 16
START_ADDR == 512
FONTSET_SIZE == 80

FONTSET ==
    << 240, 144, 144, 144, 240,
        32,  96,  32,  32, 112,
       240,  16, 240, 128, 240,
       240,  16, 240,  16, 240,
       144, 144, 240,  16,  16,
       240, 128, 240,  16, 240,
       240, 128, 240, 144, 240,
       240,  16,  32,  64,  64,
       240, 144, 240, 144, 240,
       240, 144, 240,  16, 240,
       240, 144, 240, 144, 144,
       224, 144, 224, 144, 224,
       240, 128, 128, 128, 240,
       224, 144, 144, 144, 224,
       240, 128, 240, 128, 240,
       240, 128, 240, 128, 128 >>

\* The widths of the integer types of the fields.
U8 == 256
U16 == 65536

VARIABLES
    pc, ram, screen, v_reg, i_reg, sp, stack, keys, dt, st,  \* the fields of Emu
    panicked,          \* a method of the machine has panicked
    why,               \* the message of that panic
    overflow_checks,   \* the build traps integer overflow (debug) or wraps (release)
    at,                \* where main is: before its load or in its game loop
    last,              \* history: the last call made on the machine
    call,              \* history: the pending 2NNN, for the call/return law
    stored,            \* history: the pending FX55, for the store/load law
    loaded,            \* history: the bytes handed to the last load
    event_pump,        \* main: the SDL events that are pending
    frame              \* main: where the pass of 'gameloop is, and its calls so far

vars == <<pc, ram, screen, v_reg, i_reg, sp, stack, keys, dt, st, panicked, why,
          overflow_checks, at, last, call, stored, loaded, event_pump, frame>>

----------------------------------------------------------------------------
\* Arithmetic on the bits of a byte.

RECURSIVE BitAnd(_, _)
BitAnd(a, b) ==
    IF a = 0 \/ b = 0 THEN 0
    ELSE (a % 2) * (b % 2) + 2 * BitAnd(a \div 2, b \div 2)

RECURSIVE BitOr(_, _)
BitOr(a, b) ==
    IF a = 0 THEN b
    ELSE IF b = 0 THEN a
    ELSE (IF a % 2 = 1 \/ b % 2 = 1 THEN 1 ELSE 0) + 2 * BitOr(a \div 2, b \div 2)

RECURSIVE BitXor(_, _)
BitXor(a, b) ==
    IF a = 0 THEN b
    ELSE IF b = 0 THEN a
    ELSE ((a + b) % 2) + 2 * BitXor(a \div 2, b \div 2)

RECURSIVE Pow2(_)
Pow2(n) == IF n = 0 THEN 1 ELSE 2 * Pow2(n - 1)

----------------------------------------------------------------------------
\* The machine as a value: the fields of Emu, and whether a panic stopped it.

Emu ==
    [pc |-> pc, ram |-> ram, screen |-> screen, v_reg |-> v_reg, i_reg |-> i_reg,
     sp |-> sp, stack |-> stack, keys |-> keys, dt |-> dt, st |-> st,
     panicked |-> panicked, why |-> why]

\* A panic with its message: of a bounds check, of an overflow check, of
\* unimplemented!.
PanicWith(e, msg) == [e EXCEPT !.panicked = TRUE, !.why = msg]
Panic(e) == PanicWith(e, "index out of bounds")
Overflow(e) == PanicWith(e, "arithmetic overflow")

\* Emu::new: every field zero, PC at START_ADDR, the font copied to the start of RAM.
new ==
    [pc |-> START_ADDR,
     ram |-> [a \in 0..(RAM_SIZE - 1) |-> IF a < FONTSET_SIZE THEN FONTSET[a + 1] ELSE 0],
     screen |-> [p \in 0..(SCREEN_WIDTH * SCREEN_HEIGHT - 1) |-> FALSE],
     v_reg |-> [r \in 0..(NUM_REGS - 1) |-> 0],
     i_reg |-> 0,
     sp |-> 0,
     stack |-> [s \in 0..(STACK_SIZE - 1) |-> 0],
     keys |-> [k \in 0..(NUM_KEYS - 1) |-> FALSE],
     dt |-> 0,
     st |-> 0,
     panicked |-> FALSE,
     why |-> "none"]

\* Emu::fetch: the two bytes at PC, high byte first, then PC += 2.  ram[pc] and
\* ram[pc + 1] are bounds-checked before PC is written.
\* Emu::fetch with the two bytes combined in the other order.
fetch_byte_swapped(e) ==
    IF e.pc >= RAM_SIZE THEN [emu |-> Panic(e), op |-> -1]
    ELSE IF e.pc + 1 >= RAM_SIZE THEN [emu |-> Panic(e), op |-> -1]
    ELSE [emu |-> [e EXCEPT !.pc = e.pc + 2],
          op |-> e.ram[e.pc + 1] * 256 + e.ram[e.pc]]

\* Emu::fetch with self.pc += 2 before the reads.
fetch_advancing_first(e) ==
    LET e1 == [e EXCEPT !.pc = e.pc + 2] IN
    IF e.pc >= RAM_SIZE THEN [emu |-> Panic(e1), op |-> -1]
    ELSE IF e.pc + 1 >= RAM_SIZE THEN [emu |-> Panic(e1), op |-> -1]
    ELSE [emu |-> e1, op |-> e.ram[e.pc] * 256 + e.ram[e.pc + 1]]

fetch(e) ==
    IF e.pc >= RAM_SIZE THEN [emu |-> Panic(e), op |-> -1]
    ELSE IF e.pc + 1 >= RAM_SIZE THEN [emu |-> Panic(e), op |-> -1]
    ELSE [emu |-> [e EXCEPT !.pc = e.pc + 2],
          op |-> e.ram[e.pc] * 256 + e.ram[e.pc + 1]]

\* Emu::push with the two statements in the other order: sp += 1, then the write.
push_after_increment(e, val) ==
    IF e.sp + 1 >= STACK_SIZE THEN Panic([e EXCEPT !.sp = e.sp + 1])
    ELSE [e EXCEPT !.stack[e.sp + 1] = val, !.sp = e.sp + 1]

\* Emu::push: write at sp (bounds-checked), then sp += 1.
push(e, val) ==
    IF e.sp >= STACK_SIZE THEN Panic(e)
    ELSE [e EXCEPT !.stack[e.sp] = val, !.sp = e.sp + 1]

\* Emu::pop: sp -= 1, then read at sp (bounds-checked).  At sp = 0 the subtraction
\* panics in a build with overflow checks and wraps to 65535 in one without, where
\* the read that follows panics.
pop(e) ==
    IF e.sp = 0 /\ overflow_checks THEN [emu |-> Overflow(e), val |-> -1]
    ELSE LET sp1 == (e.sp - 1) % U16
             e1 == [e EXCEPT !.sp = sp1]
         IN  IF sp1 >= STACK_SIZE THEN [emu |-> Panic(e1), val |-> -1]
             ELSE [emu |-> e1, val |-> e1.stack[sp1]]

----------------------------------------------------------------------------
\* The arms of Emu::execute.  e is the machine after the fetch.

digit1(op) == op \div 4096
digit2(op) == (op \div 256) % 16
digit3(op) == (op \div 16) % 16
digit4(op) == op % 16
nnn_of(op) == op % 4096
nn_of(op) == op % 256

skip_if(e, cond) == IF cond THEN [e EXCEPT !.pc = e.pc + 2] ELSE e

\* 00E0 clearing one row of the screen only.
clear_first_row(e) ==
    [e EXCEPT !.screen = [p \in 0..(SCREEN_WIDTH * SCREEN_HEIGHT - 1) |->
                             IF p < SCREEN_WIDTH THEN FALSE ELSE e.screen[p]]]

\* 00E0
clear_screen(e) ==
    [e EXCEPT !.screen = [p \in 0..(SCREEN_WIDTH * SCREEN_HEIGHT - 1) |-> FALSE]]

\* 00EE
ret(e) ==
    LET r == pop(e) IN IF r.emu.panicked THEN r.emu ELSE [r.emu EXCEPT !.pc = r.val]

\* 2NNN
call_sub(e, op) ==
    LET p == push(e, e.pc) IN IF p.panicked THEN p ELSE [p EXCEPT !.pc = nnn_of(op)]

\* 8XY4 with the two writes in the other order: the carry first, the sum after it.
add_xy_flag_first(e, x, y) ==
    LET sum == e.v_reg[x] + e.v_reg[y]
        e1 == [e EXCEPT !.v_reg[15] = IF sum >= U8 THEN 1 ELSE 0]
    IN  [e1 EXCEPT !.v_reg[x] = sum % U8]

\* 8XY4: the sum is written to VX first and the carry to VF after it.
add_xy(e, x, y) ==
    LET sum == e.v_reg[x] + e.v_reg[y]
        result == sum % U8
        carry == sum >= U8
        e1 == [e EXCEPT !.v_reg[x] = result]
    IN  [e1 EXCEPT !.v_reg[15] = IF carry THEN 1 ELSE 0]

\* 8XY5 with the flag the wrong way round: 1 on a borrow.
sub_xy_borrow_flag(e, x, y) ==
    LET diff == e.v_reg[x] - e.v_reg[y]
        e1 == [e EXCEPT !.v_reg[x] = diff % U8]
    IN  [e1 EXCEPT !.v_reg[15] = IF diff < 0 THEN 1 ELSE 0]

\* 8XY5: the difference is written to VX first and the flag to VF after it.
sub_xy(e, x, y) ==
    LET diff == e.v_reg[x] - e.v_reg[y]
        result == diff % U8
        borrow == diff < 0
        e1 == [e EXCEPT !.v_reg[x] = result]
    IN  [e1 EXCEPT !.v_reg[15] = IF borrow THEN 0 ELSE 1]

\* 8XY6
shr_x(e, x) ==
    LET dropped_bit == e.v_reg[x] % 2
        e1 == [e EXCEPT !.v_reg[x] = e.v_reg[x] \div 2]
    IN  [e1 EXCEPT !.v_reg[15] = dropped_bit]

\* DXYN's inner loop drawing by exclusive or: a set bit turns a lit pixel off.
RECURSIVE draw_bits_xor(_, _, _, _, _, _, _)
draw_bits_xor(scr, flipped, pixels, x_coord, y_coord, y_line, x_line) ==
    IF x_line >= 8 THEN [screen |-> scr, flipped |-> flipped]
    ELSE IF (pixels \div Pow2(7 - x_line)) % 2 # 0
         THEN LET x == (x_coord + x_line) % SCREEN_WIDTH
                  y == (y_coord + y_line) % SCREEN_HEIGHT
                  idx == x + SCREEN_WIDTH * y
              IN  draw_bits_xor([scr EXCEPT ![idx] = ~scr[idx]], flipped \/ scr[idx],
                                pixels, x_coord, y_coord, y_line, x_line + 1)
         ELSE draw_bits_xor(scr, flipped, pixels, x_coord, y_coord, y_line, x_line + 1)

\* DXYN, the inner loop: the bits of one sprite byte, most significant first.
RECURSIVE draw_bits(_, _, _, _, _, _, _)
draw_bits(scr, flipped, pixels, x_coord, y_coord, y_line, x_line) ==
    IF x_line >= 8 THEN [screen |-> scr, flipped |-> flipped]
    ELSE IF (pixels \div Pow2(7 - x_line)) % 2 # 0
         THEN LET x == (x_coord + x_line) % SCREEN_WIDTH
                  y == (y_coord + y_line) % SCREEN_HEIGHT
                  idx == x + SCREEN_WIDTH * y
              IN  draw_bits([scr EXCEPT ![idx] = TRUE], flipped \/ scr[idx],
                            pixels, x_coord, y_coord, y_line, x_line + 1)
         ELSE draw_bits(scr, flipped, pixels, x_coord, y_coord, y_line, x_line + 1)

\* DXYN, the outer loop: one sprite byte per row, read at I + y_line.  The u16 sum
\* traps or wraps as the build has it; the read of ram is bounds-checked.
RECURSIVE draw_rows(_, _, _, _, _, _)
draw_rows(e, flipped, x_coord, y_coord, num_rows, y_line) ==
    IF y_line >= num_rows THEN [emu |-> e, flipped |-> flipped]
    ELSE IF e.i_reg + y_line >= U16 /\ overflow_checks
         THEN [emu |-> Overflow(e), flipped |-> flipped]
    ELSE LET addr == (e.i_reg + y_line) % U16 IN
         IF addr >= RAM_SIZE THEN [emu |-> Panic(e), flipped |-> flipped]
         ELSE LET d == draw_bits(e.screen, flipped, e.ram[addr],
                                 x_coord, y_coord, y_line, 0)
              IN  draw_rows([e EXCEPT !.screen = d.screen], d.flipped,
                            x_coord, y_coord, num_rows, y_line + 1)

\* DXYN setting VF on a collision and leaving it alone otherwise.
draw_flag_sticky(e, op) ==
    LET x_coord == e.v_reg[digit2(op)]
        y_coord == e.v_reg[digit3(op)]
        d == draw_rows(e, FALSE, x_coord, y_coord, digit4(op), 0)
    IN  IF d.emu.panicked THEN d.emu
        ELSE IF d.flipped THEN [d.emu EXCEPT !.v_reg[15] = 1] ELSE d.emu

\* DXYN
draw(e, op) ==
    LET x_coord == e.v_reg[digit2(op)]
        y_coord == e.v_reg[digit3(op)]
        d == draw_rows(e, FALSE, x_coord, y_coord, digit4(op), 0)
    IN  IF d.emu.panicked THEN d.emu
        ELSE [d.emu EXCEPT !.v_reg[15] = IF d.flipped THEN 1 ELSE 0]

\* EX9E and EXA1: keys[vx] is bounds-checked.
skip_key(e, x, want) ==
    LET vx == e.v_reg[x] IN
    IF vx >= NUM_KEYS THEN Panic(e) ELSE skip_if(e, e.keys[vx] = want)

\* FX0A: the lowest pressed key goes to VX; with none, PC goes back to the opcode.
RECURSIVE first_key(_, _)
first_key(ks, i) ==
    IF i >= NUM_KEYS THEN -1 ELSE IF ks[i] THEN i ELSE first_key(ks, i + 1)

\* FX0A that puts PC back on the opcode whether or not a key is down.
wait_key_rewinding(e, x) ==
    LET i == first_key(e.keys, 0) IN
    IF i >= 0 THEN [e EXCEPT !.v_reg[x] = i, !.pc = e.pc - 2]
    ELSE [e EXCEPT !.pc = e.pc - 2]

\* FX0A scanning the keys from the top: the highest pressed key goes to VX.
wait_key_highest(e, x) ==
    LET down == {i \in 0..(NUM_KEYS - 1) : e.keys[i]} IN
    IF down # {} THEN [e EXCEPT !.v_reg[x] = CHOOSE i \in down : \A j \in down : j <= i]
    ELSE [e EXCEPT !.pc = e.pc - 2]

wait_key(e, x) ==
    LET i == first_key(e.keys, 0) IN
    IF i >= 0 THEN [e EXCEPT !.v_reg[x] = i]
    ELSE [e EXCEPT !.pc = e.pc - 2]

\* An f32 is m / 2^e with m an integer below 2^24 (a 24-bit significand).
\* F32Div is n / d for integers n and d, which are exact as f32, rounded to the
\* nearest f32, ties to even.
RECURSIVE F32Scale(_, _, _)
F32Scale(n, d, k) ==
    IF (n * Pow2(k)) \div d >= Pow2(23) THEN k ELSE F32Scale(n, d, k + 1)

F32Div(n, d) ==
    IF n = 0 THEN [m |-> 0, e |-> 0]
    ELSE LET k == F32Scale(n, d, 0)
             t == n * Pow2(k)
             q == t \div d
             r == t % d
         IN  [m |-> IF 2 * r > d \/ (2 * r = d /\ q % 2 = 1) THEN q + 1 ELSE q,
              e |-> k]

\* f32 % d for an integer d: the remainder of a division of floats is exact.
F32Rem(f, d) == [m |-> f.m % (d * Pow2(f.e)), e |-> f.e]

\* f32::floor, then the cast to u8 of a value that is in range.
F32Floor(f) == f.m \div Pow2(f.e)

\* FX33 with the tens digit not reduced modulo 10.
bcd_tens_unreduced(e, x) ==
    LET vx == e.v_reg[x]
        hundreds == F32Floor(F32Div(vx, 100))
        tens == F32Floor(F32Div(vx, 10))
        ones == vx % 10
    IN  IF e.i_reg + 2 >= RAM_SIZE THEN Panic(e)
        ELSE [e EXCEPT !.ram[e.i_reg] = hundreds,
                       !.ram[e.i_reg + 1] = tens,
                       !.ram[e.i_reg + 2] = ones]

\* FX33: hundreds, tens and ones of VX, computed in f32, at I, I + 1, I + 2; each
\* write is bounds-checked, and I + 1 and I + 2 are u16 sums.
bcd(e, x) ==
    LET vx == e.v_reg[x]
        hundreds == F32Floor(F32Div(vx, 100))
        tens == F32Floor(F32Rem(F32Div(vx, 10), 10))
        ones == vx % 10
    IN  IF e.i_reg >= RAM_SIZE THEN Panic(e)
        ELSE LET e1 == [e EXCEPT !.ram[e.i_reg] = hundreds] IN
             IF e.i_reg + 1 >= RAM_SIZE THEN Panic(e1)
             ELSE LET e2 == [e1 EXCEPT !.ram[e.i_reg + 1] = tens] IN
                  IF e.i_reg + 2 >= RAM_SIZE THEN Panic(e2)
                  ELSE [e2 EXCEPT !.ram[e.i_reg + 2] = ones]

\* FX55 with the loop over 0..x instead of 0..=x.
RECURSIVE store_regs_exclusive(_, _, _)
store_regs_exclusive(e, x, idx) ==
    IF idx >= x THEN e
    ELSE IF e.i_reg + idx >= RAM_SIZE THEN Panic(e)
    ELSE store_regs_exclusive([e EXCEPT !.ram[e.i_reg + idx] = e.v_reg[idx]], x, idx + 1)

\* FX55: V0..VX to ram[I..], one bounds-checked write at a time.
RECURSIVE store_regs(_, _, _)
store_regs(e, x, idx) ==
    IF idx > x THEN e
    ELSE IF e.i_reg + idx >= RAM_SIZE THEN Panic(e)
    ELSE store_regs([e EXCEPT !.ram[e.i_reg + idx] = e.v_reg[idx]], x, idx + 1)

\* FX65: ram[I..] to V0..VX, one bounds-checked read at a time.
RECURSIVE load_regs(_, _, _)
load_regs(e, x, idx) ==
    IF idx > x THEN e
    ELSE IF e.i_reg + idx >= RAM_SIZE THEN Panic(e)
    ELSE load_regs([e EXCEPT !.v_reg[idx] = e.ram[e.i_reg + idx]], x, idx + 1)

\* Whether the opcode matches an arm of the match other than the fallback.
recognized(op) ==
    LET d1 == digit1(op)
        d2 == digit2(op)
        d3 == digit3(op)
        d4 == digit4(op)
    IN  \/ d1 = 0 /\ d2 = 0 /\ d3 = 0 /\ d4 = 0
        \/ d1 = 0 /\ d2 = 0 /\ d3 = 14 /\ d4 \in {0, 14}
        \/ d1 \in {1, 2, 3, 4, 6, 7, 10, 11, 12, 13}
        \/ d1 \in {5, 9} /\ d4 = 0
        \/ d1 = 8 /\ d4 \in 0..6
        \/ d1 = 14 /\ ((d3 = 9 /\ d4 = 14) \/ (d3 = 10 /\ d4 = 1))
        \/ d1 = 15 /\ <<d3, d4>> \in {<<0, 7>>, <<0, 10>>, <<1, 5>>, <<1, 8>>, <<1, 14>>,
                                      <<2, 9>>, <<3, 3>>, <<5, 5>>, <<6, 5>>}

\* 1NNN with the target forced even.
jump_even(e, nnn) == [e EXCEPT !.pc = nnn - (nnn % 2)]

\* 1NNN: self.pc = nnn.
jump(e, nnn) == [e EXCEPT !.pc = nnn]

\* The fallback arm that ignores the opcode.
unimplemented_ignored(e, op) == e

\* The fallback arm: unimplemented!("Unimplemented opcode: {}", op).
unimplemented(e, op) == PanicWith(e, "not implemented")

\* Emu::execute: the match on the four digits of the opcode.  The patterns of the
\* match are disjoint, so their order does not matter.  rng is the byte random()
\* returns in the CXNN arm.
execute(e, op, rng) ==
    LET d1 == digit1(op)
        x == digit2(op)
        y == digit3(op)
        d4 == digit4(op)
        nnn == nnn_of(op)
        nn == nn_of(op)
    IN  CASE op = 0 -> e
          [] op = 224 -> clear_screen(e)
          [] op = 238 -> ret(e)
          [] d1 = 1 -> jump(e, nnn)
          [] d1 = 2 -> call_sub(e, op)
          [] d1 = 3 -> skip_if(e, e.v_reg[x] = nn)
          [] d1 = 4 -> skip_if(e, e.v_reg[x] # nn)
          [] d1 = 5 /\ d4 = 0 -> skip_if(e, e.v_reg[x] = e.v_reg[y])
          [] d1 = 6 -> [e EXCEPT !.v_reg[x] = nn]
          [] d1 = 7 -> [e EXCEPT !.v_reg[x] = (e.v_reg[x] + nn) % U8]
          [] d1 = 8 /\ d4 = 0 -> [e EXCEPT !.v_reg[x] = e.v_reg[y]]
          [] d1 = 8 /\ d4 = 1 -> [e EXCEPT !.v_reg[x] = BitOr(e.v_reg[x], e.v_reg[y])]
          [] d1 = 8 /\ d4 = 2 -> [e EXCEPT !.v_reg[x] = BitAnd(e.v_reg[x], e.v_reg[y])]
          [] d1 = 8 /\ d4 = 3 -> [e EXCEPT !.v_reg[x] = BitXor(e.v_reg[x], e.v_reg[y])]
          [] d1 = 8 /\ d4 = 4 -> add_xy(e, x, y)
          [] d1 = 8 /\ d4 = 5 -> sub_xy(e, x, y)
          [] d1 = 8 /\ d4 = 6 -> shr_x(e, x)
          [] d1 = 9 /\ d4 = 0 -> skip_if(e, e.v_reg[x] # e.v_reg[y])
          [] d1 = 10 -> [e EXCEPT !.i_reg = nnn]
          [] d1 = 11 -> [e EXCEPT !.pc = e.v_reg[0] + nnn]
          [] d1 = 12 -> [e EXCEPT !.v_reg[x] = BitAnd(rng, nn)]
          [] d1 = 13 -> draw(e, op)
          [] d1 = 14 /\ y = 9 /\ d4 = 14 -> skip_key(e, x, TRUE)
          [] d1 = 14 /\ y = 10 /\ d4 = 1 -> skip_key(e, x, FALSE)
          [] d1 = 15 /\ y = 0 /\ d4 = 7 -> [e EXCEPT !.v_reg[x] = e.dt]
          [] d1 = 15 /\ y = 0 /\ d4 = 10 -> wait_key(e, x)
          [] d1 = 15 /\ y = 1 /\ d4 = 5 -> [e EXCEPT !.dt = e.v_reg[x]]
          [] d1 = 15 /\ y = 1 /\ d4 = 8 -> [e EXCEPT !.st = e.v_reg[x]]
          [] d1 = 15 /\ y = 1 /\ d4 = 14 -> [e EXCEPT !.i_reg = (e.i_reg + e.v_reg[x]) % U16]
          [] d1 = 15 /\ y = 2 /\ d4 = 9 -> [e EXCEPT !.i_reg = e.v_reg[x] * 5]
          [] d1 = 15 /\ y = 3 /\ d4 = 3 -> bcd(e, x)
          [] d1 = 15 /\ y = 5 /\ d4 = 5 -> store_regs(e, x, 0)
          [] d1 = 15 /\ y = 6 /\ d4 = 5 -> load_regs(e, x, 0)
          [] OTHER -> unimplemented(e, op)

\* Emu::tick: one fetch and one execute.
tick(e, rng) ==
    LET f == fetch(e) IN
    IF f.emu.panicked THEN f.emu ELSE execute(f.emu, f.op, rng)

\* Emu::tick_timers without the tests for zero: a u8 at 0 wraps to 255.
tick_timers_unguarded(e) ==
    [e EXCEPT !.dt = (e.dt - 1) % U8, !.st = (e.st - 1) % U8]

\* Emu::tick_timers: each timer goes down by one unless it is zero.
tick_timers(e) ==
    LET e1 == IF e.dt > 0 THEN [e EXCEPT !.dt = e.dt - 1] ELSE e
    IN  IF e1.st > 0 THEN [e1 EXCEPT !.st = e1.st - 1] ELSE e1

\* Emu::keypress: keys[idx] is bounds-checked.
keypress(e, idx, pressed) ==
    IF idx >= NUM_KEYS THEN Panic(e) ELSE [e EXCEPT !.keys[idx] = pressed]

\* copy_from_slice: the bytes of src, in order, to dst from address start on.
RECURSIVE copy_from_slice(_, _, _, _)
copy_from_slice(dst, start, src, i) ==
    IF i > Len(src) THEN dst
    ELSE copy_from_slice([dst EXCEPT ![start + i - 1] = src[i]], start, src, i + 1)

\* The same copy as one function, for a slice too long to copy byte by byte.
copy_long_slice(dst, start, src) ==
    [a \in DOMAIN dst |->
        IF a >= start /\ a < start + Len(src) THEN src[a - start + 1] ELSE dst[a]]

\* Emu::load that clears the memory from START_ADDR up before it copies.
load_clearing(e, data) ==
    LET start == START_ADDR
        end == START_ADDR + Len(data)
        cleared == [a \in DOMAIN e.ram |-> IF a >= start THEN 0 ELSE e.ram[a]]
    IN  IF end > RAM_SIZE THEN Panic(e)
        ELSE [e EXCEPT !.ram = copy_long_slice(cleared, start, data)]

\* Emu::load: the slice ram[start..end] is bounds-checked as a whole before the copy.
load(e, data) ==
    LET start == START_ADDR
        end == START_ADDR + Len(data)
    IN  IF end > RAM_SIZE THEN Panic(e)
        ELSE [e EXCEPT !.ram = IF Len(data) <= FONTSET_SIZE
                                 THEN copy_from_slice(e.ram, start, data, 1)
                                 ELSE copy_long_slice(e.ram, start, data)]

\* Emu::reset without self.keys = [false; NUM_KEYS].
reset_keeping_keys(e) ==
    LET e1 == [e EXCEPT !.pc = START_ADDR,
                        !.ram = [a \in 0..(RAM_SIZE - 1) |-> 0],
                        !.screen = [p \in 0..(SCREEN_WIDTH * SCREEN_HEIGHT - 1) |-> FALSE],
                        !.v_reg = [r \in 0..(NUM_REGS - 1) |-> 0],
                        !.i_reg = 0,
                        !.sp = 0,
                        !.stack = [s \in 0..(STACK_SIZE - 1) |-> 0],
                        !.dt = 0,
                        !.st = 0]
    IN  [e1 EXCEPT !.ram = copy_from_slice(e1.ram, 0, FONTSET, 1)]

\* Emu::reset: the fields assigned one by one, the font copied last.
reset(e) ==
    LET e1 == [e EXCEPT !.pc = START_ADDR,
                        !.ram = [a \in 0..(RAM_SIZE - 1) |-> 0],
                        !.screen = [p \in 0..(SCREEN_WIDTH * SCREEN_HEIGHT - 1) |-> FALSE],
                        !.v_reg = [r \in 0..(NUM_REGS - 1) |-> 0],
                        !.i_reg = 0,
                        !.sp = 0,
                        !.stack = [s \in 0..(STACK_SIZE - 1) |-> 0],
                        !.keys = [k \in 0..(NUM_KEYS - 1) |-> FALSE],
                        !.dt = 0,
                        !.st = 0]
    IN  [e1 EXCEPT !.ram = copy_from_slice(e1.ram, 0, FONTSET, 1)]

----------------------------------------------------------------------------
\* The calls made on the machine.  main (desktop) builds the machine, loads the
\* ROM once, and then calls keypress, tick and tick_timers from its game loop.

NoCall == [state |-> "none", pc |-> -1, sp |-> -1]
\* main before the first pass of 'gameloop: the pass starts at the poll of the
\* events; i is the counter of the loop over 0..TICKS_PER_FRAME; the rest counts
\* the events that arrived and the calls main has made.
FirstFrame ==
    [phase |-> "poll", i |-> 0, arrived |-> 0, passes |-> 0,
     presses |-> 0, ticks |-> 0, timers |-> 0, draws |-> 0]
NoStore == [state |-> "none", x |-> -1, i |-> -1, v |-> <<>>]

Init ==
    /\ pc = new.pc
    /\ ram = new.ram
    /\ screen = new.screen
    /\ v_reg = new.v_reg
    /\ i_reg = new.i_reg
    /\ sp = new.sp
    /\ stack = new.stack
    /\ keys = new.keys
    /\ dt = new.dt
    /\ st = new.st
    /\ panicked = FALSE
    /\ why = new.why
    /\ overflow_checks \in BOOLEAN
    /\ at = "load"
    /\ last = [call |-> "new", op |-> -1]
    /\ call = NoCall
    /\ stored = NoStore
    /\ loaded = <<>>
    /\ event_pump = <<>>
    /\ frame = FirstFrame

\* The fields of Emu after a method that left the machine as e.
Commit(e) ==
    /\ pc' = e.pc
    /\ ram' = e.ram
    /\ screen' = e.screen
    /\ v_reg' = e.v_reg
    /\ i_reg' = e.i_reg
    /\ sp' = e.sp
    /\ stack' = e.stack
    /\ keys' = e.keys
    /\ dt' = e.dt
    /\ st' = e.st
    /\ panicked' = e.panicked
    /\ why' = e.why

\* main: chip8.load(&buffer), once, before the game loop.
Load(data) ==
    /\ at = "load"
    /\ ~panicked
    /\ Commit(load(Emu, data))
    /\ at' = "gameloop"
    /\ last' = [call |-> "load", op |-> -1]
    /\ loaded' = data
    /\ call' = NoCall
    /\ stored' = NoStore
    /\ UNCHANGED <<overflow_checks, event_pump, frame>>

\* A caller of the library that loads again, on a machine that has run.
Reload(data) ==
    /\ at = "gameloop"
    /\ ~panicked
    /\ Commit(load(Emu, data))
    /\ last' = [call |-> "load", op |-> -1]
    /\ loaded' = data
    /\ call' = NoCall
    /\ stored' = NoStore
    /\ UNCHANGED <<overflow_checks, at, event_pump, frame>>

\* A caller of the library that resets the machine; a load follows.  The history
\* variables are not fields of the machine and keep what the run has recorded.
Reset ==
    /\ at = "gameloop"
    /\ ~panicked
    /\ Commit(reset(Emu))
    /\ at' = "load"
    /\ last' = [call |-> "reset", op |-> -1]
    /\ UNCHANGED <<overflow_checks, call, stored, loaded, event_pump, frame>>

\* The bytes random() can return where the CXNN arm calls it; no other arm calls it.
RngBytes(op) == IF op >= 0 /\ digit1(op) = 12 THEN 0..(U8 - 1) ELSE {0}

\* The call/return history after a tick that fetched f.op and left the machine as
\* e.  A 2NNN that pushed is pending, with the PC it pushed (the PC after its
\* fetch) and the stack pointer it found.  A 00EE that runs on a pending call, no
\* other 2NNN or 00EE having run since, has returned from it; the next tick forgets
\* it.
CallAfter(f, e) ==
    IF f.op >= 0 /\ digit1(f.op) = 2
    THEN IF e.panicked THEN NoCall
         ELSE [state |-> "pending", pc |-> f.emu.pc, sp |-> f.emu.sp]
    ELSE IF f.op = 238
    THEN IF call.state = "pending" /\ ~e.panicked
         THEN [call EXCEPT !.state = "returned"]
         ELSE NoCall
    ELSE IF call.state = "returned" THEN NoCall
    ELSE call

\* The store/load history after a tick that fetched f.op and left the machine as
\* e.  An FX55 that completed is pending, with its x, the I it stored at and the
\* registers it stored.  An FX65 with the same x that completes at the same I has
\* loaded them back; the next tick forgets it.  Any other opcode that writes
\* memory, or changes I, ends a pending store; opcodes that write registers do not.
StoredAfter(f, e) ==
    IF f.op < 0 \/ e.panicked THEN NoStore
    ELSE IF digit1(f.op) = 15 /\ f.op % 256 = 85
    THEN [state |-> "pending", x |-> digit2(f.op), i |-> f.emu.i_reg, v |-> f.emu.v_reg]
    ELSE IF digit1(f.op) = 15 /\ f.op % 256 = 101
    THEN IF stored.state = "pending" /\ stored.x = digit2(f.op) /\ stored.i = f.emu.i_reg
         THEN [stored EXCEPT !.state = "loaded"]
         ELSE NoStore
    ELSE IF stored.state = "loaded" THEN NoStore
    ELSE IF e.ram # f.emu.ram \/ e.i_reg # f.emu.i_reg THEN NoStore
    ELSE stored

\* main: chip8.tick().
Tick ==
    /\ at = "gameloop"
    /\ ~panicked
    /\ LET f == fetch(Emu) IN
       \E rng \in RngBytes(f.op) :
          LET e == tick(Emu, rng) IN
          /\ Commit(e)
          /\ last' = [call |-> "tick", op |-> f.op]
          /\ call' = CallAfter(f, e)
          /\ stored' = StoredAfter(f, e)
    /\ UNCHANGED <<overflow_checks, at, loaded, event_pump, frame>>

\* main: chip8.tick_timers().
TickTimers ==
    /\ at = "gameloop"
    /\ ~panicked
    /\ Commit(tick_timers(Emu))
    /\ last' = [call |-> "tick_timers", op |-> -1]
    /\ UNCHANGED <<overflow_checks, at, call, stored, loaded, event_pump, frame>>

\* main: chip8.keypress(k, true) on a key-down event, chip8.keypress(k, false) on a
\* key-up event.
Keypress(idx, pressed) ==
    /\ at = "gameloop"
    /\ ~panicked
    /\ Commit(keypress(Emu, idx, pressed))
    /\ last' = [call |-> "keypress", op |-> -1]
    /\ UNCHANGED <<overflow_checks, at, call, stored, loaded, event_pump, frame>>

----------------------------------------------------------------------------
\* ROMs.  A ROM is the byte sequence handed to load; it is assembled from 16-bit
\* opcodes, high byte first.

Asm(ops) ==
    [i \in 1..(2 * Len(ops)) |->
        IF i % 2 = 1 THEN ops[(i + 1) \div 2] \div 256 ELSE ops[i \div 2] % 256]

Op(d1, d2, d3, d4) == d1 * 4096 + d2 * 256 + d3 * 16 + d4
OpNN(d1, x, nn) == d1 * 4096 + x * 256 + nn
OpNNN(d1, nnn) == d1 * 4096 + nnn

\* The address of the k-th opcode of a ROM (k from 0), and a jump to itself there:
\* the idiom a ROM ends with.
AddrOf(k) == START_ADDR + 2 * k
Halt(k) == OpNNN(1, AddrOf(k))

\* The registers and the byte values the ROMs use: the low ones and VF; the bytes
\* around 0, around 128 and around 255.
MaxReg == 1
ByteEdge == 1
Regs == (0..MaxReg) \cup {15}
EdgeBytes ==
    {b \in 0..(U8 - 1) :
        \/ b <= ByteEdge
        \/ b >= 255 - ByteEdge
        \/ b >= 128 - ByteEdge /\ b <= 127 + ByteEdge}

\* The step is a tick whose fetch succeeded.
Ticked == last'.call = "tick" /\ last'.op >= 0

----------------------------------------------------------------------------
\* Arithmetic: VX := a, VY := b, then 8XY4 or 8XY5.

RomsAlu ==
    {Asm(<<OpNN(6, x, a), OpNN(6, y, b), Op(8, x, y, k), Halt(3)>>) :
        x \in Regs, y \in Regs, a \in EdgeBytes, b \in EdgeBytes, k \in {4, 5}}

NextAlu ==
    \/ \E data \in RomsAlu : Load(data)
    \/ Tick

SpecAlu == Init /\ [][NextAlu]_vars

IsAdd(op) == digit1(op) = 8 /\ digit4(op) = 4
IsSub(op) == digit1(op) = 8 /\ digit4(op) = 5
OpX(op) == digit2(op)
OpY(op) == digit3(op)
FetchedOp == fetch(Emu).op

\* C1 as stated: every tick that executes 8XY4 with VX = a and VY = b before it
\* leaves VF = 1 if a + b > 255 and VF = 0 otherwise, and VX = (a + b) mod 256, for
\* every x and y (x = 0xF included).
C1_AsStated ==
    [][Ticked /\ IsAdd(FetchedOp) =>
         LET x == OpX(FetchedOp)
             a == v_reg[OpX(FetchedOp)]
             b == v_reg[OpY(FetchedOp)]
         IN  /\ v_reg'[15] = (IF a + b > 255 THEN 1 ELSE 0)
             /\ v_reg'[x] = (a + b) % 256]_vars

\* C1 as amended: every tick that executes 8XY4 with VX = a and VY = b before it
\* leaves VF = 1 if a + b > 255 and VF = 0 otherwise (for every x and y, 0xF
\* included), leaves VX = (a + b) mod 256 when x is not 0xF, and changes no other
\* register.
C1_AddCarry ==
    [][Ticked /\ IsAdd(FetchedOp) =>
         LET x == OpX(FetchedOp)
             a == v_reg[OpX(FetchedOp)]
             b == v_reg[OpY(FetchedOp)]
         IN  /\ ~panicked'
             /\ v_reg'[15] = (IF a + b > 255 THEN 1 ELSE 0)
             /\ x # 15 => v_reg'[x] = (a + b) % 256
             /\ \A r \in 0..(NUM_REGS - 1) : r \notin {x, 15} => v_reg'[r] = v_reg[r]]_vars

\* C1 witness: an 8XY4 with x = 0xF has run on a sum that is not its carry: VF
\* holds the carry 0 after VF = 1 and V0 = 1 were added.
C1_Witness ==
    /\ last = [call |-> "tick", op |-> Op(8, 15, 0, 4)]
    /\ v_reg[0] = 1
    /\ v_reg[15] = 0
    /\ ram[START_ADDR + 1] = 1
    /\ ram[START_ADDR + 3] = 1

\* C2 as stated: every tick that executes 8XY5 with VX = a and VY = b before it
\* leaves VF = 1 if a >= b and VF = 0 otherwise, and VX = (a - b) mod 256, for
\* every x and y.
C2_AsStated ==
    [][Ticked /\ IsSub(FetchedOp) =>
         LET x == OpX(FetchedOp)
             a == v_reg[OpX(FetchedOp)]
             b == v_reg[OpY(FetchedOp)]
         IN  /\ v_reg'[15] = (IF a >= b THEN 1 ELSE 0)
             /\ v_reg'[x] = (a - b) % 256]_vars

\* C2 as amended: every tick that executes 8XY5 with VX = a and VY = b before it
\* leaves VF = 1 if a >= b and VF = 0 otherwise (for every x and y, 0xF included),
\* leaves VX = (a - b) mod 256 when x is not 0xF, and changes no other register.
C2_SubBorrow ==
    [][Ticked /\ IsSub(FetchedOp) =>
         LET x == OpX(FetchedOp)
             a == v_reg[OpX(FetchedOp)]
             b == v_reg[OpY(FetchedOp)]
         IN  /\ ~panicked'
             /\ v_reg'[15] = (IF a >= b THEN 1 ELSE 0)
             /\ x # 15 => v_reg'[x] = (a - b) % 256
             /\ \A r \in 0..(NUM_REGS - 1) : r \notin {x, 15} => v_reg'[r] = v_reg[r]]_vars

\* C2 witness: an 8XY5 with x = 0xF has run on a difference that is not its flag:
\* VF holds the flag 0 (a borrow) after V0 = 1 was taken from VF = 0, which is 255.
C2_Witness ==
    /\ last = [call |-> "tick", op |-> Op(8, 15, 0, 5)]
    /\ v_reg[0] = 1
    /\ v_reg[15] = 0
    /\ ram[START_ADDR + 1] = 0
    /\ ram[START_ADDR + 3] = 1

----------------------------------------------------------------------------
\* The stack: every ROM of StackRomLen opcodes, each a call into the ROM, a return
\* or a register load, with the halting jump after them.

StackRomLen == 3
StackOps == {OpNNN(2, AddrOf(k)) : k \in 0..StackRomLen} \cup {Op(0, 0, 14, 14), OpNN(6, 0, 5)}
RomsStack == {Asm(ops \o <<Halt(StackRomLen)>>) : ops \in [1..StackRomLen -> StackOps]}

NextStack ==
    \/ \E data \in RomsStack : Load(data)
    \/ Tick

SpecStack == Init /\ [][NextStack]_vars

\* C3: a 00EE that runs on the call of a 2NNN, with no other 2NNN or 00EE between
\* the two, leaves PC at the value it held when that 2NNN began to execute (the PC
\* after the fetch of the 2NNN, which is the value 2NNN pushes) and the stack
\* pointer at the value it held before that 2NNN.
C3_CallReturn ==
    call.state = "returned" => ~panicked /\ pc = call.pc /\ sp = call.sp

\* C3 witness: the ROM 2202 6005 00EE has called 0x202, loaded V0 there and
\* returned: PC is 0x202 again, the value the 2202 pushed, and the stack is empty.
C3_Witness ==
    /\ call.state = "returned"
    /\ last = [call |-> "tick", op |-> Op(0, 0, 14, 14)]
    /\ ram[START_ADDR] = 34 /\ ram[START_ADDR + 1] = 2
    /\ v_reg[0] = 5
    /\ pc = AddrOf(1)
    /\ sp = 0

\* C4 as stated: after every tick the stack pointer is in 0..16; a 2NNN at depth 16
\* and a 00EE at depth 0 abort the tick; and a 2NNN or 00EE that aborts has touched
\* neither memory nor the registers nor the framebuffer.
C4_AsStated ==
    [][Ticked =>
         /\ sp' \in 0..STACK_SIZE
         /\ FetchedOp \div 4096 = 2 /\ sp = STACK_SIZE => panicked'
         /\ FetchedOp = 238 /\ sp = 0 => panicked'
         /\ (FetchedOp \div 4096 = 2 \/ FetchedOp = 238) /\ panicked' =>
               UNCHANGED <<ram, v_reg, i_reg, screen, stack>>]_vars

----------------------------------------------------------------------------
\* The keys: VX := a, then FX0A, EX9E or EXA1, while keys go down and up.

MaxKey == 1
KeyIdx == (0..MaxKey) \cup {NUM_KEYS - 1}
KeyBytes == KeyIdx \cup {NUM_KEYS, U8 - 1}

RomsKey ==
    {Asm(<<OpNN(6, x, a), Op(15, x, 0, 10), Halt(2)>>) : x \in Regs, a \in KeyBytes}
    \cup
    {Asm(<<OpNN(6, x, a), Op(14, x, k[1], k[2]), Halt(2), Halt(3)>>) :
        x \in Regs, a \in KeyBytes, k \in {<<9, 14>>, <<10, 1>>}}

NextKey ==
    \/ \E data \in RomsKey : Load(data)
    \/ Tick
    \/ \E idx \in KeyIdx, pressed \in BOOLEAN : Keypress(idx, pressed)

SpecKey == Init /\ [][NextKey]_vars

IsWaitKey(op) == digit1(op) = 15 /\ digit3(op) = 0 /\ digit4(op) = 10
KeysDown == {i \in 0..(NUM_KEYS - 1) : keys[i]}
Lowest(S) == CHOOSE i \in S : \A j \in S : i <= j

\* C5: a tick that executes FX0A with no key flag true leaves PC at its value
\* before the tick and changes no register (nor anything else of the machine); with
\* at least one key flag true it leaves PC advanced by exactly 2, VX equal to the
\* lowest index whose flag is true, and every other register as it was.
C5_WaitKey ==
    [][Ticked /\ IsWaitKey(FetchedOp) =>
         LET x == OpX(FetchedOp) IN
         /\ ~panicked'
         /\ KeysDown = {} => pc' = pc /\ UNCHANGED <<ram, screen, v_reg, i_reg, sp, stack, keys, dt, st>>
         /\ KeysDown # {} =>
               /\ pc' = pc + 2
               /\ v_reg' = [v_reg EXCEPT ![x] = Lowest(KeysDown)]]_vars

\* C5 witness: an FX0A has completed with two keys down, 1 and 0xF, and key 0 up:
\* VX holds 1, PC is past the opcode, and VX held another value before.
C5_Witness ==
    /\ last.call = "tick" /\ last.op >= 0 /\ IsWaitKey(last.op)
    /\ ~keys[0] /\ keys[1] /\ keys[15]
    /\ v_reg[OpX(last.op)] = 1
    /\ ram[START_ADDR + 1] = 15
    /\ pc = AddrOf(2)

IsCall(op) == digit1(op) = 2
IsRet(op) == op = Op(0, 0, 14, 14)

\* C6 as stated: every tick whose fetch succeeds and whose opcode matches a pattern
\* of the table other than 2NNN and 00EE completes without a panic.
C6_AsStated ==
    [][Ticked /\ recognized(FetchedOp) /\ ~IsCall(FetchedOp) /\ ~IsRet(FetchedOp)
         => ~panicked']_vars

----------------------------------------------------------------------------
\* The screen: VX := a, VY := b, I := i, a first sprite of n rows, VX += dx, a
\* second sprite of n2 rows, 00E0.  The sprites are the font at address 0, or the
\* bytes FF 81 that follow the halting jump in the ROM.  dx is a multiple of 4, up
\* to 4 * MaxShift.

MaxShift == 1
DrawRegs == {0, 15}
SpriteAddr == AddrOf(8)
RomsDraw ==
    {Asm(<<OpNN(6, x, a), OpNN(6, y, b), OpNNN(10, i), Op(13, x, y, n),
           OpNN(7, x, dx), Op(13, x, y, n2), Op(0, 0, 14, 0), Halt(7), 65409>>) :
        x \in DrawRegs, y \in DrawRegs, a \in {0, 60, 255}, b \in {0, 31},
        i \in {0, SpriteAddr}, n \in {0, 1, 15}, dx \in {4 * k : k \in 0..MaxShift},
        n2 \in {1, 2}}

NextDraw ==
    \/ \E data \in RomsDraw : Load(data)
    \/ Tick

SpecDraw == Init /\ [][NextDraw]_vars

IsDraw(op) == digit1(op) = 13
Pixels == 0..(SCREEN_WIDTH * SCREEN_HEIGHT - 1)

\* The pixels a DXYN fetched in this state targets: for row r and bit c (the most
\* significant bit is bit 0) with that bit of ram[I + r] set, column (VX + c) mod
\* 64 of row (VY + r) mod 32.
Targets ==
    LET op == FetchedOp IN
    {((v_reg[OpX(op)] + c) % 64) + 64 * ((v_reg[OpY(op)] + r) % 32) :
        <<r, c>> \in {rc \in (0..(digit4(op) - 1)) \X (0..7) :
                         (ram[i_reg + rc[1]] \div Pow2(7 - rc[2])) % 2 = 1}}

\* C7: after a DXYN that completes, every pixel targeted by a set sprite bit is on
\* and every other pixel is as it was; an 8x1 sprite of set bits drawn at VX = 60
\* targets exactly the columns 60, 61, 62, 63, 0, 1, 2, 3 of row VY mod 32.
C7_DrawPixels ==
    [][Ticked /\ IsDraw(FetchedOp) /\ ~panicked' =>
         \A T \in {Targets} :
            /\ \A p \in Pixels : screen'[p] = (p \in T \/ screen[p])
            /\ (digit4(FetchedOp) = 1 /\ ram[i_reg] = 255 /\ v_reg[OpX(FetchedOp)] = 60) =>
                  T = {col + 64 * (v_reg[OpY(FetchedOp)] % 32) :
                          col \in {60, 61, 62, 63, 0, 1, 2, 3}}]_vars

\* C7 witness: the 8x1 sprite FF has been drawn at VX = 60, VY = 31 on an empty
\* screen: the lit pixels are the columns 60..63 and 0..3 of row 31.
C7_Witness ==
    /\ last = [call |-> "tick", op |-> Op(13, 0, 15, 1)]
    /\ pc = AddrOf(4)
    /\ v_reg[0] = 60
    /\ ram[i_reg] = 255
    /\ {p \in Pixels : screen[p]} = {col + 64 * 31 : col \in {60, 61, 62, 63, 0, 1, 2, 3}}

\* C8: after a DXYN that completes, VF = 1 if a pixel targeted by a set sprite bit
\* was on before the draw and VF = 0 otherwise (no rows and no set bit included),
\* for every x and y, and no other register has changed.
C8_DrawCollision ==
    [][Ticked /\ IsDraw(FetchedOp) /\ ~panicked' =>
         v_reg' = [v_reg EXCEPT ![15] = IF \E p \in Targets : screen[p] THEN 1 ELSE 0]]_vars

\* C8 witness: a second sprite drawn with x = 0xF has hit a lit pixel, VF = 1, and
\* has lit pixels of its own.
C8_Witness ==
    /\ last = [call |-> "tick", op |-> Op(13, 15, 0, 2)]
    /\ pc = AddrOf(6)
    /\ v_reg[15] = 1
    /\ ram[START_ADDR + 9] = 4
    /\ Cardinality({p \in Pixels : screen[p]}) > 8

\* C9: a tick that executes 00E0 leaves every pixel of the 64x32 screen off, PC
\* advanced by 2, and everything else as it was.
C9_ClearScreen ==
    [][Ticked /\ FetchedOp = Op(0, 0, 14, 0) =>
         /\ \A p \in Pixels : ~screen'[p]
         /\ pc' = pc + 2
         /\ ~panicked'
         /\ UNCHANGED <<ram, v_reg, i_reg, sp, stack, keys, dt, st>>]_vars

\* C9 witness: 00E0 has run after two sprites were drawn, the second onto the
\* first (VF = 1), on rows other than the first: no pixel is lit.
C9_Witness ==
    /\ last = [call |-> "tick", op |-> Op(0, 0, 14, 0)]
    /\ v_reg[15] = 1
    /\ v_reg[0] = 31
    /\ \A p \in Pixels : ~screen[p]

----------------------------------------------------------------------------
\* The timers: V0 := a, DT := V0, V1 := b, ST := V1, while the timers tick.

MaxTimer == 3
RomsTimer ==
    {Asm(<<OpNN(6, 0, a), Op(15, 0, 1, 5), OpNN(6, 1, b), Op(15, 1, 1, 8), Halt(4)>>) :
        a \in 0..MaxTimer, b \in 0..MaxTimer}

NextTimer ==
    \/ \E data \in RomsTimer : Load(data)
    \/ Tick
    \/ TickTimers

SpecTimer == Init /\ [][NextTimer]_vars

\* C10: tick_timers leaves DT = DT - 1 if DT > 0 and DT = 0 if DT = 0, and ST
\* likewise, each by its own value; neither goes below 0 or wraps to 255, a timer
\* at 0 stays at 0, and nothing else of the machine changes.
C10_TimerFloor ==
    [][last'.call = "tick_timers" =>
         /\ dt' = (IF dt > 0 THEN dt - 1 ELSE 0)
         /\ st' = (IF st > 0 THEN st - 1 ELSE 0)
         /\ dt' \in 0..(U8 - 1) /\ st' \in 0..(U8 - 1)
         /\ dt = 0 => dt' = 0
         /\ st = 0 => st' = 0
         /\ ~panicked'
         /\ UNCHANGED <<pc, ram, screen, v_reg, i_reg, sp, stack, keys>>]_vars

\* C10 witness: tick_timers has run with DT at 0 and ST above it: DT is still 0
\* and ST has gone down from 3 to 2.
C10_Witness ==
    /\ last.call = "tick_timers"
    /\ pc = AddrOf(4)
    /\ v_reg[0] = 0 /\ dt = 0
    /\ v_reg[1] = 3 /\ st = 2


----------------------------------------------------------------------------
\* Register store and load: FX55, FX65.

\* The addresses I is set to: inside the free memory, the last addresses at
\* which x + 1 bytes fit for x = 15, 1 and 0, each of which is too high for a
\* larger x.
StoreAddrs == {768, RAM_SIZE - NUM_REGS, RAM_SIZE - 2, RAM_SIZE - 1}

\* ROMs that set V0 and V1, point I, store V0..VX, overwrite V0 and V1, and load
\* V0..VX back.
RomsRegs ==
    {Asm(<<OpNN(6, 0, a), OpNN(6, 1, 1), OpNNN(10, i), Op(15, x, 5, 5),
           OpNN(6, 0, 7), OpNN(6, 1, 9), Op(15, x, 6, 5), Halt(7)>>) :
        x \in Regs, a \in {0, U8 - 1}, i \in StoreAddrs}

NextRegs ==
    \/ \E data \in RomsRegs : Load(data)
    \/ Tick

SpecRegs == Init /\ [][NextRegs]_vars

IsStoreRegs(op) == digit1(op) = 15 /\ digit3(op) = 5 /\ digit4(op) = 5
IsLoadRegs(op) == digit1(op) = 15 /\ digit3(op) = 6 /\ digit4(op) = 5

\* C11: an FX55 with I + x inside memory writes V0..VX at I..I+x and changes no
\* register and not I; an FX65 with I + x inside memory changes no register above
\* VX and not I; and an FX65 that follows an FX55 of the same x, with I the same and
\* the registers overwritten in between, leaves V0..VX as they were when the FX55
\* executed.
C11_StoreLoad ==
    [][/\ Ticked /\ IsStoreRegs(FetchedOp) /\ i_reg + OpX(FetchedOp) < RAM_SIZE =>
            /\ ~panicked'
            /\ \A r \in 0..OpX(FetchedOp) : ram'[i_reg + r] = v_reg[r]
            /\ UNCHANGED <<v_reg, i_reg>>
       /\ Ticked /\ IsLoadRegs(FetchedOp) /\ i_reg + OpX(FetchedOp) < RAM_SIZE =>
            /\ ~panicked'
            /\ \A r \in (OpX(FetchedOp) + 1)..(NUM_REGS - 1) : v_reg'[r] = v_reg[r]
            /\ UNCHANGED i_reg
       /\ stored'.state = "loaded" /\ stored.state = "pending" =>
            \A r \in 0..stored.x : v_reg'[r] = stored.v[r]]_vars

\* C11 witness: V0 = 255 and V1 = 1 were stored by an F155 at the last two bytes of
\* memory, overwritten with 7 and 9, and are back after the F165.
C11_Witness ==
    /\ stored.state = "loaded" /\ stored.x = 1 /\ stored.i = RAM_SIZE - 2
    /\ last.call = "tick" /\ IsLoadRegs(last.op)
    /\ ram[AddrOf(4) + 1] = 7 /\ ram[AddrOf(5) + 1] = 9
    /\ v_reg[0] = U8 - 1 /\ v_reg[1] = 1
    /\ ~panicked

----------------------------------------------------------------------------
\* Binary-coded decimal: FX33.

\* The addresses I is set to: inside the free memory, the last address at which
\* three bytes fit, and the one after it.
BcdAddrs == {768, RAM_SIZE - 3, RAM_SIZE - 2}

\* ROMs that set VX to any byte, point I and convert.
RomsBcd ==
    {Asm(<<OpNN(6, x, v), OpNNN(10, i), Op(15, x, 3, 3), Halt(3)>>) :
        x \in Regs, v \in 0..(U8 - 1), i \in BcdAddrs}

NextBcd ==
    \/ \E data \in RomsBcd : Load(data)
    \/ Tick

SpecBcd == Init /\ [][NextBcd]_vars

IsBcd(op) == digit1(op) = 15 /\ digit3(op) = 3 /\ digit4(op) = 3

\* C12: an FX33 with I + 2 inside memory writes v div 100, (v div 10) mod 10 and
\* v mod 10, for v the value of VX, at I, I + 1 and I + 2, and changes no other
\* byte of memory and no register.
C12_Bcd ==
    [][Ticked /\ IsBcd(FetchedOp) /\ i_reg + 2 < RAM_SIZE =>
         LET v == v_reg[OpX(FetchedOp)] IN
         /\ ~panicked'
         /\ ram' = [ram EXCEPT ![i_reg] = v \div 100,
                               ![i_reg + 1] = (v \div 10) % 10,
                               ![i_reg + 2] = v % 10]
         /\ pc' = pc + 2
         /\ UNCHANGED <<screen, v_reg, i_reg, sp, stack, keys, dt, st>>]_vars

\* C12 witness: VF = 157 has been converted at the last three bytes of memory,
\* which hold 1, 5 and 7.
C12_Witness ==
    /\ last.call = "tick" /\ last.op = Op(15, 15, 3, 3)
    /\ v_reg[15] = 157 /\ i_reg = RAM_SIZE - 3
    /\ ram[RAM_SIZE - 3] = 1 /\ ram[RAM_SIZE - 2] = 5 /\ ram[RAM_SIZE - 1] = 7
    /\ ~panicked

----------------------------------------------------------------------------
\* The library called in any order: load, tick, tick_timers, keypress, reset.

\* A ROM that touches every part of the machine: V0, the timers, the framebuffer
\* (a row of the font glyph at I = 0), I, and the stack.
RomAll ==
    Asm(<<OpNN(6, 0, MaxTimer), Op(15, 0, 1, 5), Op(15, 0, 1, 8), Op(13, 0, 0, 1),
          OpNNN(10, 291), OpNNN(2, AddrOf(6)), Halt(6)>>)

\* A ROM of n bytes in which every opcode is a jump to one of the first three,
\* each of which jumps to itself; an odd n leaves half an opcode at the end.
RomFill(n) ==
    [i \in 1..n |->
        LET op == OpNNN(1, AddrOf(((i - 1) \div 2) % 3))
        IN  IF i % 2 = 1 THEN op \div 256 ELSE op % 256]

\* The longest ROM that fits, and one byte more.
RomLongest == RomFill(RAM_SIZE - START_ADDR)
RomTooLong == RomFill(RAM_SIZE - START_ADDR + 1)

\* The ROMs handed to the first load and to a load after a reset, and the ROMs
\* handed to a load on a machine that has run: the empty one and the short ones.
RomsApi == {RomAll, RomFill(2), RomLongest, RomTooLong}
RomsAgain == {<<>>, RomAll, RomFill(2)}

NextApi ==
    \/ \E data \in RomsApi : Load(data)
    \/ \E data \in RomsAgain : Reload(data)
    \/ Tick
    \/ TickTimers
    \/ \E pressed \in BOOLEAN : Keypress(NUM_KEYS - 1, pressed)
    \/ Reset

SpecApi == Init /\ [][NextApi]_vars

\* mem with data[i] at START_ADDR + i - 1 for every i from 1 to the length of
\* data: written byte by byte for a short data, as one function for a long one.
RECURSIVE PatchedFrom(_, _, _)
PatchedFrom(mem, data, i) ==
    IF i > Len(data) THEN mem
    ELSE PatchedFrom([mem EXCEPT ![START_ADDR + i - 1] = data[i]], data, i + 1)

Patched(mem, data) ==
    IF Len(data) <= FONTSET_SIZE THEN PatchedFrom(mem, data, 1)
    ELSE [a \in 0..(RAM_SIZE - 1) |->
             IF a >= START_ADDR /\ a < START_ADDR + Len(data)
             THEN data[a - START_ADDR + 1] ELSE mem[a]]

\* C13: a load of len <= 3584 bytes sets ram[0x200 + i] = data[i] for i < len and
\* leaves every other byte of memory and every other part of the machine
\* unchanged; a load of more than 3584 bytes panics on its bounds check and has
\* written nothing.
C13_LoadFrame ==
    [][last'.call = "load" =>
         LET len == Len(loaded') IN
         IF len <= RAM_SIZE - START_ADDR
         THEN /\ ~panicked'
              /\ ram' = Patched(ram, loaded')
              /\ UNCHANGED <<pc, screen, v_reg, i_reg, sp, stack, keys, dt, st>>
         ELSE /\ panicked' /\ why' = "index out of bounds"
              /\ UNCHANGED <<ram, pc, screen, v_reg, i_reg, sp, stack, keys, dt, st>>]_vars

\* C13 witness: two bytes have been loaded over the longer ROM on a machine that
\* has run it: the two bytes are at 0x200, the byte after them and the font are
\* as they were, and V0, I, the stack, a timer, a key and a pixel are still set.
C13_Witness ==
    /\ last.call = "load" /\ loaded = RomFill(2)
    /\ ram[START_ADDR] = 18 /\ ram[START_ADDR + 1] = 0
    /\ ram[START_ADDR + 2] = Op(15, 0, 1, 5) \div U8
    /\ ram[0] = FONTSET[1]
    /\ v_reg[0] = MaxTimer /\ i_reg = 291 /\ sp = 1 /\ stack[0] = AddrOf(6)
    /\ dt = MaxTimer /\ keys[NUM_KEYS - 1]
    /\ \E p \in DOMAIN screen : screen[p]
    /\ pc = AddrOf(6)
    /\ ~panicked

\* C14: after a reset that follows any sequence of load, tick, tick_timers and
\* keypress, every part of the machine is as initialization leaves it: PC = 0x200,
\* the font at 0x000-0x04F and every other byte of memory 0, V0..VF = 0, I = 0,
\* the stack pointer and the stack slots 0, no key down, DT = ST = 0, no pixel on.
C14_Reset ==
    last.call = "reset" =>
        /\ pc = START_ADDR
        /\ \A a \in 0..(RAM_SIZE - 1) :
              ram[a] = IF a < FONTSET_SIZE THEN FONTSET[a + 1] ELSE 0
        /\ \A r \in 0..(NUM_REGS - 1) : v_reg[r] = 0
        /\ i_reg = 0
        /\ sp = 0
        /\ \A s \in 0..(STACK_SIZE - 1) : stack[s] = 0
        /\ \A k \in 0..(NUM_KEYS - 1) : ~keys[k]
        /\ dt = 0 /\ st = 0
        /\ \A p \in 0..(SCREEN_WIDTH * SCREEN_HEIGHT - 1) : ~screen[p]
        /\ Emu = new

\* C14 witness: a reset on a machine that had loaded the ROM that touches every
\* part and had executed its 2NNN: the stack slot of that call and the ROM are
\* gone.
C14_Witness ==
    /\ last.call = "reset"
    /\ loaded = RomAll
    /\ call.state = "pending" /\ call.sp = 0 /\ call.pc = AddrOf(6)
    /\ stack[0] = 0 /\ sp = 0
    /\ ram[START_ADDR] = 0
    /\ pc = START_ADDR

----------------------------------------------------------------------------
\* Decoding.

\* The opcodes decoded.  Where the table tells opcodes of one first digit apart
\* by their other digits: every third and fourth digit, and for the first digit
\* 0 a second digit other than 0 too.  Where the first digit decides: the lowest
\* and highest third and fourth digits; a jump or call goes to the opcode after
\* it, and a CXNN has a small mask.
DecodeOps ==
    {Op(d1, 0, d3, d4) : d1 \in {0, 5, 8, 9, 14, 15}, d3 \in 0..15, d4 \in 0..15}
    \cup {Op(0, d2, d3, d4) : d2 \in 1..MaxReg, d3 \in 0..15, d4 \in 0..15}
    \cup {Op(d1, 0, d3, d4) : d1 \in {3, 4, 6, 7, 10, 13},
                              d3 \in {0, 1, 14, 15}, d4 \in {0, 1, 14, 15}}
    \cup {OpNNN(d1, AddrOf(1)) : d1 \in {1, 2, 11}}
    \cup {OpNN(12, x, nn) : x \in 0..MaxReg, nn \in 0..MaxReg}

\* ROMs of one opcode, followed by two halts (a skip lands on the second).
RomsDecode == {Asm(<<op, Halt(1), Halt(2)>>) : op \in DecodeOps}

NextDecode ==
    \/ \E data \in RomsDecode : Load(data)
    \/ Tick

SpecDecode == Init /\ [][NextDecode]_vars

\* The patterns of the instruction table, digit by digit; -1 stands for any digit.
Table ==
    {<<0, 0, 0, 0>>, <<0, 0, 14, 0>>, <<0, 0, 14, 14>>,
     <<1, -1, -1, -1>>, <<2, -1, -1, -1>>, <<3, -1, -1, -1>>, <<4, -1, -1, -1>>,
     <<5, -1, -1, 0>>, <<6, -1, -1, -1>>, <<7, -1, -1, -1>>,
     <<8, -1, -1, 0>>, <<8, -1, -1, 1>>, <<8, -1, -1, 2>>, <<8, -1, -1, 3>>,
     <<8, -1, -1, 4>>, <<8, -1, -1, 5>>, <<8, -1, -1, 6>>,
     <<9, -1, -1, 0>>, <<10, -1, -1, -1>>, <<11, -1, -1, -1>>, <<12, -1, -1, -1>>,
     <<13, -1, -1, -1>>, <<14, -1, 9, 14>>, <<14, -1, 10, 1>>,
     <<15, -1, 0, 7>>, <<15, -1, 0, 10>>, <<15, -1, 1, 5>>, <<15, -1, 1, 8>>,
     <<15, -1, 1, 14>>, <<15, -1, 2, 9>>, <<15, -1, 3, 3>>, <<15, -1, 5, 5>>,
     <<15, -1, 6, 5>>}

InTable(op) ==
    \E t \in Table :
        /\ t[1] \in {-1, digit1(op)}
        /\ t[2] \in {-1, digit2(op)}
        /\ t[3] \in {-1, digit3(op)}
        /\ t[4] \in {-1, digit4(op)}

\* C15: a tick whose fetched word matches no pattern of the instruction table
\* panics with the decode error, and a tick whose word matches a pattern does not
\* raise the decode error.
C15_Decode ==
    [][Ticked =>
         /\ ~InTable(FetchedOp) => panicked' /\ why' = "not implemented"
         /\ InTable(FetchedOp) => why' # "not implemented"]_vars

\* C15 witness: the tick that fetched 8007, which is in no pattern, has panicked
\* with the decode error.
C15_Witness ==
    /\ last.call = "tick" /\ last.op = Op(8, 0, 0, 7)
    /\ panicked /\ why = "not implemented"

----------------------------------------------------------------------------
\* Fetch, jumps and the fatal errors.

MaxBack == 3

\* The targets of the jumps: the start of the font, the two bytes before the ROM,
\* the halt of the ROM, and the last addresses of memory.
JumpTargets == {0, START_ADDR - 2, AddrOf(2)} \cup {RAM_SIZE - 1 - k : k \in 0..MaxBack}

\* ROMs that set V0 and jump, call or jump with offset V0; and a ROM that writes a
\* call at the last two bytes of memory, jumps to it, and returns from it.
RomsFetch ==
    {Asm(<<OpNN(6, 0, a), OpNNN(j, nnn), Halt(2)>>) :
        a \in {0, U8 - 1}, j \in {1, 2, 11}, nnn \in JumpTargets}
    \cup
    {Asm(<<OpNN(6, 0, OpNNN(2, AddrOf(5)) \div U8), OpNN(6, 1, OpNNN(2, AddrOf(5)) % U8),
           OpNNN(10, RAM_SIZE - 2), Op(15, 1, 5, 5), OpNNN(1, RAM_SIZE - 2),
           Op(0, 0, 14, 14)>>)}

NextFetch ==
    \/ \E data \in RomsFetch : Load(data)
    \/ Tick

SpecFetch == Init /\ [][NextFetch]_vars

\* C16: a tick aborts in its fetch if and only if PC >= 4095, with the machine
\* as it was; for PC <= 4094 the fetch yields (ram[PC] << 8) | ram[PC + 1] and
\* advances PC by 2, which an opcode that does not write PC leaves there and a
\* 2NNN pushes.
C16_Fetch ==
    [][last'.call = "tick" =>
         /\ last'.op = -1 <=> pc >= RAM_SIZE - 1
         /\ pc >= RAM_SIZE - 1 => panicked' /\ why' = "index out of bounds"
         /\ pc <= RAM_SIZE - 2 =>
               /\ last'.op = BitOr(ram[pc] * U8, ram[pc + 1])
               /\ last'.op = 0 \/ digit1(last'.op) \in {6, 10} => pc' = pc + 2 /\ ~panicked'
               /\ digit1(last'.op) = 2 /\ sp < STACK_SIZE => stack'[sp] = pc + 2]_vars

\* C16 witness: a fetch has aborted at PC = 4096, which a 00EE returned to: the
\* slot below the stack pointer holds 4096, pushed by the 2NNN at 4094.
C16_Witness ==
    /\ last.call = "tick" /\ last.op = -1
    /\ panicked /\ why = "index out of bounds"
    /\ pc = RAM_SIZE
    /\ sp = 0 /\ stack[0] = RAM_SIZE
    /\ ram[RAM_SIZE - 2] = OpNNN(2, AddrOf(5)) \div U8

\* C17 as stated: a tick that aborts in its fetch or on an unrecognized opcode
\* has changed no part of the machine.
C17_AsStated ==
    [][last'.call = "tick" /\ panicked' /\ (last'.op = -1 \/ why' = "not implemented") =>
         UNCHANGED <<pc, ram, screen, v_reg, i_reg, sp, stack, keys, dt, st>>]_vars

\* C17: a tick that aborts in its fetch has changed no part of the machine; a
\* tick that aborts on an unrecognized opcode has advanced PC by 2 and changed
\* nothing else.
C17_AbortState ==
    [][last'.call = "tick" /\ panicked' =>
         /\ last'.op = -1 =>
               UNCHANGED <<pc, ram, screen, v_reg, i_reg, sp, stack, keys, dt, st>>
         /\ why' = "not implemented" =>
               /\ pc' = pc + 2
               /\ UNCHANGED <<ram, screen, v_reg, i_reg, sp, stack, keys, dt, st>>]_vars

\* C17 witness: the tick at PC = 0, where the font starts with F0 90, has aborted
\* on that word with PC = 2 and V0 as the ROM set it.
C17_Witness ==
    /\ last.call = "tick" /\ last.op = Op(15, 0, 9, 0)
    /\ panicked /\ why = "not implemented"
    /\ pc = 2
    /\ v_reg[0] = U8 - 1

\* C18: a 1NNN sets PC to nnn and changes nothing else.
C18_Jump ==
    [][Ticked /\ digit1(FetchedOp) = 1 =>
         /\ pc' = FetchedOp % 4096
         /\ ~panicked'
         /\ UNCHANGED <<ram, screen, v_reg, i_reg, sp, stack, keys, dt, st>>]_vars

\* C18 witness: a 1FFF has set PC to 4095 with V0 = 255.
C18_Witness ==
    /\ last.call = "tick" /\ last.op = OpNNN(1, RAM_SIZE - 1)
    /\ pc = RAM_SIZE - 1
    /\ v_reg[0] = U8 - 1
    /\ ~panicked

----------------------------------------------------------------------------
\* The key wait under fair ticking.

\* main calls tick in every pass of its loop, so a tick that would change the
\* state is not postponed forever.
SpecKeyLive == Init /\ [][NextKey]_vars /\ WF_vars(Tick)

\* The next tick fetches an FX0A.
AtWaitKey ==
    /\ at = "gameloop" /\ ~panicked
    /\ pc <= RAM_SIZE - 2
    /\ IsWaitKey(FetchedOp)

\* The last tick completed an FX0A: PC is past it and VX holds a key that is down.
WaitKeyDone ==
    /\ last.call = "tick" /\ last.op >= 0 /\ IsWaitKey(last.op)
    /\ ~panicked
    /\ pc >= START_ADDR + 2
    /\ BitOr(ram[pc - 2] * U8, ram[pc - 1]) = last.op
    /\ v_reg[OpX(last.op)] \in KeysDown

\* C19: with ticks fair, a machine at an FX0A completes it if from some time on
\* a key is always down; and a tick of the wait with no key down leaves PC,
\* registers, I, memory, stack and framebuffer as they are.
C19_KeyWaitLive ==
    /\ [](AtWaitKey => (<>[](KeysDown # {}) => <>WaitKeyDone))
    /\ [][Ticked /\ IsWaitKey(FetchedOp) /\ KeysDown = {} =>
            UNCHANGED <<pc, v_reg, i_reg, ram, sp, stack, screen>>]_vars

\* C19 witness: an FF0A has completed with key 0xF alone down, after waiting: VF
\* holds 15 and PC is past the opcode.
C19_Witness ==
    /\ WaitKeyDone
    /\ last.op = Op(15, 15, 0, 10)
    /\ KeysDown = {NUM_KEYS - 1}
    /\ v_reg[15] = NUM_KEYS - 1
    /\ ram[START_ADDR + 1] = 0
    /\ pc = AddrOf(2)

----------------------------------------------------------------------------
\* Conditional skips: 3XNN, 4XNN, 5XY0, 9XY0, EX9E, EXA1.

\* The values VX, VY and nn take: two key indices and the first byte that is not
\* a key index.
SkipBytes == (0..MaxKey) \cup {NUM_KEYS}

\* The six conditional skips on VX, VY and nn.
SkipOps(x, y, nn) ==
    <<OpNN(3, x, nn), OpNN(4, x, nn), Op(5, x, y, 0), Op(9, x, y, 0),
      Op(14, x, 9, 14), Op(14, x, 10, 1)>>

\* ROMs that set VX and VY (VX twice when y = x) and run one conditional skip,
\* with b as its nn; the skip lands on the second halt.
RomsSkip ==
    {Asm(<<OpNN(6, x, a), OpNN(6, y, b), SkipOps(x, y, b)[k], Halt(3), Halt(4)>>) :
        x \in Regs, y \in 0..MaxReg, a \in SkipBytes, b \in SkipBytes, k \in 1..6}

NextSkip ==
    \/ \E data \in RomsSkip : Load(data)
    \/ Tick
    \/ \E idx \in 0..MaxKey, pressed \in BOOLEAN : Keypress(idx, pressed)

SpecSkip == Init /\ [][NextSkip]_vars

IsSkip(op) ==
    \/ digit1(op) \in {3, 4}
    \/ digit1(op) \in {5, 9} /\ digit4(op) = 0
    \/ digit1(op) = 14 /\ op % U8 \in {9 * 16 + 14, 10 * 16 + 1}

\* Whether key k is down; no key has an index of NUM_KEYS or more.
Pressed(k) == k < NUM_KEYS /\ keys[k]

\* The condition of a conditional skip, in the current state.
SkipCond(op) ==
    LET vx == v_reg[digit2(op)]
        vy == v_reg[digit3(op)]
    IN  CASE digit1(op) = 3 -> vx = op % U8
          [] digit1(op) = 4 -> vx # op % U8
          [] digit1(op) = 5 -> vx = vy
          [] digit1(op) = 9 -> vx # vy
          [] digit1(op) = 14 /\ op % U8 = 9 * 16 + 14 -> Pressed(vx)
          [] digit1(op) = 14 /\ op % U8 = 10 * 16 + 1 -> ~Pressed(vx)

\* C20 as stated: a tick that executes a conditional skip completes with PC
\* advanced by 4 if the condition holds and by 2 if not, and changes nothing else.
C20_AsStated ==
    [][Ticked /\ IsSkip(FetchedOp) =>
         /\ ~panicked'
         /\ pc' = pc + (IF SkipCond(FetchedOp) THEN 4 ELSE 2)
         /\ UNCHANGED <<ram, screen, v_reg, i_reg, sp, stack, keys, dt, st>>]_vars

----------------------------------------------------------------------------
\* main: the passes of 'gameloop.

TICKS_PER_FRAME == 10

MaxFrames == 2
MaxEvents == 2

\* main's key2btn; -1 stands for None.
key2btn(key) ==
    CASE key = "Num1" -> 1 [] key = "Num2" -> 2 [] key = "Num3" -> 3 [] key = "Num4" -> 12
      [] key = "Q" -> 4 [] key = "W" -> 5 [] key = "E" -> 6 [] key = "R" -> 13
      [] key = "A" -> 7 [] key = "S" -> 8 [] key = "D" -> 9 [] key = "F" -> 14
      [] key = "Y" -> 10 [] key = "X" -> 0 [] key = "C" -> 11 [] key = "V" -> 15
      [] OTHER -> -1

\* The events that arrive: a key of the pad down and up, a key that is not of the
\* pad, Escape, and the close of the window.
DriverEvents ==
    {[kind |-> "KeyDown", key |-> "X"], [kind |-> "KeyUp", key |-> "X"],
     [kind |-> "KeyDown", key |-> "P"], [kind |-> "KeyDown", key |-> "Escape"],
     [kind |-> "Quit", key |-> "none"]}

\* A ROM that sets the delay timer, waits for a key and draws at the key's index.
RomWait ==
    Asm(<<OpNN(6, 0, MaxTimer), Op(15, 0, 1, 5), Op(15, 0, 0, 10), Op(13, 0, 0, 1),
          Halt(4)>>)

RomsDriver == {RomWait, RomAll}

MachineVars == <<pc, ram, screen, v_reg, i_reg, sp, stack, keys, dt, st, panicked, why>>

\* SDL queues an event while main runs.
Arrive(evt) ==
    /\ at = "gameloop" /\ ~panicked /\ frame.phase # "quit"
    /\ frame.arrived < MaxEvents
    /\ event_pump' = Append(event_pump, evt)
    /\ frame' = [frame EXCEPT !.arrived = @ + 1]
    /\ UNCHANGED <<MachineVars, overflow_checks, at, last, call, stored, loaded>>

\* One turn of for evt in event_pump.poll_iter(): the match on the event.
PollEvent ==
    /\ at = "gameloop" /\ ~panicked /\ frame.phase = "poll"
    /\ event_pump # <<>>
    /\ event_pump' = Tail(event_pump)
    /\ LET evt == Head(event_pump)
           k == key2btn(evt.key)
       IN  IF evt.kind = "Quit" \/ (evt.kind = "KeyDown" /\ evt.key = "Escape")
           THEN /\ frame' = [frame EXCEPT !.phase = "quit"]
                /\ UNCHANGED <<MachineVars, last>>
           ELSE IF evt.kind \in {"KeyDown", "KeyUp"} /\ k >= 0
           THEN /\ Commit(keypress(Emu, k, evt.kind = "KeyDown"))
                /\ last' = [call |-> "keypress", op |-> -1]
                /\ frame' = [frame EXCEPT !.presses = @ + 1]
           ELSE UNCHANGED <<MachineVars, last, frame>>
    /\ UNCHANGED <<overflow_checks, at, call, stored, loaded>>

\* poll_iter has no event left: the loop over 0..TICKS_PER_FRAME starts.
PollDone ==
    /\ at = "gameloop" /\ ~panicked /\ frame.phase = "poll"
    /\ event_pump = <<>>
    /\ frame.passes < MaxFrames
    /\ frame' = [frame EXCEPT !.phase = "ticks", !.i = 0, !.passes = @ + 1]
    /\ UNCHANGED <<MachineVars, overflow_checks, at, last, call, stored, loaded, event_pump>>

\* The end of the loop over 0..TICKS_PER_FRAME, tested one turn late.
ticks_done_late(i) == i > TICKS_PER_FRAME

\* The end of the loop over 0..TICKS_PER_FRAME.
ticks_done(i) == i >= TICKS_PER_FRAME

\* One turn of the loop: chip8.tick().
FrameTick ==
    /\ at = "gameloop" /\ ~panicked /\ frame.phase = "ticks"
    /\ ~ticks_done(frame.i)
    /\ LET f == fetch(Emu) IN
       \E rng \in RngBytes(f.op) :
          LET e == tick(Emu, rng) IN
          /\ Commit(e)
          /\ last' = [call |-> "tick", op |-> f.op]
          /\ call' = CallAfter(f, e)
          /\ stored' = StoredAfter(f, e)
    /\ frame' = [frame EXCEPT !.i = @ + 1, !.ticks = @ + 1]
    /\ UNCHANGED <<overflow_checks, at, loaded, event_pump>>

\* After the loop: chip8.tick_timers().
FrameTimers ==
    /\ at = "gameloop" /\ ~panicked /\ frame.phase = "ticks"
    /\ ticks_done(frame.i)
    /\ Commit(tick_timers(Emu))
    /\ last' = [call |-> "tick_timers", op |-> -1]
    /\ frame' = [frame EXCEPT !.phase = "draw", !.timers = @ + 1]
    /\ UNCHANGED <<overflow_checks, at, call, stored, loaded, event_pump>>

\* draw_screen: emu.get_display() is read; the pass ends.
DrawScreen ==
    /\ at = "gameloop" /\ ~panicked /\ frame.phase = "draw"
    /\ last' = [call |-> "get_display", op |-> -1]
    /\ frame' = [frame EXCEPT !.phase = "poll", !.draws = @ + 1]
    /\ UNCHANGED <<MachineVars, overflow_checks, at, call, stored, loaded, event_pump>>

NextDriver ==
    \/ \E data \in RomsDriver : Load(data)
    \/ \E evt \in DriverEvents : Arrive(evt)
    \/ PollEvent
    \/ PollDone
    \/ FrameTick
    \/ FrameTimers
    \/ DrawScreen

SpecDriver == Init /\ [][NextDriver]_vars

\* C21: in every pass of the loop the events are polled until none is pending
\* before the first tick; a key update happens only when no tick of the pass has
\* run; tick_timers is called only after exactly 10 ticks of the pass, and once;
\* the framebuffer is read only after that tick_timers; and at the start of every
\* pass the ticks so far are 10 times the tick_timers so far.
C21_DriverOrder ==
    [][/\ frame.phase = "poll" /\ frame'.phase = "ticks" => event_pump = <<>>
       /\ frame'.presses # frame.presses =>
             frame.ticks = 10 * frame.draws /\ frame.timers = frame.draws
       /\ frame'.ticks # frame.ticks =>
             /\ frame.timers = frame.draws
             /\ frame.ticks < 10 * frame.draws + 10
       /\ frame'.timers # frame.timers =>
             /\ frame'.timers = frame.timers + 1
             /\ frame.timers = frame.draws
             /\ frame.ticks = 10 * frame.draws + 10
       /\ frame'.draws # frame.draws =>
             /\ frame.timers = frame.draws + 1
             /\ frame.ticks = 10 * frame.timers
             /\ UNCHANGED screen
       /\ frame'.phase = "poll" => frame'.ticks = 10 * frame'.timers]_vars

\* C21 witness: two passes are complete, with 20 ticks, 2 calls of tick_timers and
\* 2 reads of the framebuffer; key 0 went down in a poll and the ROM that waits
\* for a key has drawn at its index.
C21_Witness ==
    /\ frame.phase = "poll"
    /\ frame.ticks = 20 /\ frame.timers = 2 /\ frame.draws = 2
    /\ frame.presses >= 1 /\ keys[0]
    /\ loaded = RomWait
    /\ pc = AddrOf(4)
    /\ \E p \in DOMAIN screen : screen[p]
    /\ ~panicked

====
